---- MODULE Spec2Model ----
(***************************************************************************)
(* A model of model_serving_utils.py: the non-streaming query executor     *)
(* (query_endpoint), the structured result parser (parse_rag_response),    *)
(* the capability probe (is_endpoint_supported), the streaming executor    *)
(* (query_endpoint_stream) and the fragment text extractor                 *)
(* (extract_content_from_stream).                                          *)
(*                                                                         *)
(* Python values are records [t, s, l, d] of one shape:                    *)
(*   t  the type: "none", "bool", "num", "str", "list" or "dict"           *)
(*   s  the characters of a str (the digits of a num, the name of a bool), *)
(*      as a sequence of lexical atoms; an atom stands for a run of        *)
(*      characters and Width gives how many                                *)
(*   l  the elements of a list                                             *)
(*   d  the items of a dict, in insertion order: [k |-> key, v |-> value]  *)
(***************************************************************************)
EXTENDS Integers, Sequences, FiniteSets, TLC

VARIABLES
    response,   \* parse_rag_response: the argument of the call
    result,     \* parse_rag_response: the value returned (None: nothing)
    raised,     \* parse_rag_response: an exception left the call
    ppc,        \* parse_rag_response: "idle" | "called" | "done"
    qpc,        \* query_endpoint: "idle" | "start" | "agent_failed" | "returned" | "raised"
    sent,       \* query_endpoint: the envelopes handed to client.predict, in order
    agentRes,   \* query_endpoint: what the agent-style predict returned
    chatRes,    \* query_endpoint: what the chat-style predict returned
    sendOk,     \* query_endpoint: <<agent predict returned, chat predict returned>>
    qresult,    \* query_endpoint: the message returned to the caller
    qmessages,  \* query_endpoint: the conversation passed in
    qmax,       \* query_endpoint: max_tokens
    lookup,     \* is_endpoint_supported: how _get_endpoint_task_type ended
    supported,  \* is_endpoint_supported: the value returned
    supportRaised, \* is_endpoint_supported: an exception left the call
    spc,        \* is_endpoint_supported: "idle" | "called" | "done"
    units,      \* query_endpoint_stream: the chunks the transport has delivered
    yielded,    \* query_endpoint_stream: the fragments yielded, in order
    held,       \* query_endpoint_stream: the response of client.predict is open
    tpc,        \* query_endpoint_stream: "idle" | "start" | "open" | "ended" |
                \* "abandoned" (the consumer stopped iterating) | "closed", or
                \* the exception raised to the consumer came from "predict_raised" |
                \* "transport_raised" | "chunk_raised"
    chunk,      \* extract_content_from_stream: the argument of the call
    extracted,  \* extract_content_from_stream: the value returned
    extractRaised, \* extract_content_from_stream: an exception left the call
    epc,        \* extract_content_from_stream: "idle" | "called" | "done"
    searched,   \* main: st.session_state.searched
    results_data, \* main: st.session_state.results_data
    access_requested, \* main: st.session_state.access_requested, a set of names
    requests,   \* request_access_api: the calls made, in order, as [name, ok]
    lastSearch, \* main: how query_rag_endpoint ended in the latest search run
    cards,      \* main: the result cards on the page after the latest script run
    runs        \* main: the script runs of the session so far

parseVars == <<response, result, raised, ppc>>
queryVars == <<qpc, sent, agentRes, chatRes, sendOk, qresult, qmessages, qmax>>
supportVars == <<lookup, supported, supportRaised, spc>>
streamVars == <<units, yielded, held, tpc>>
extractVars == <<chunk, extracted, extractRaised, epc>>

uiVars == <<searched, results_data, access_requested, requests, lastSearch, cards, runs>>

vars == <<parseVars, queryVars, supportVars, streamVars, extractVars, uiVars>>

----------------------------------------------------------------------------
(* Python values *)

None == [t |-> "none", s |-> <<>>, l |-> <<>>, d |-> <<>>]
Str(atoms) == [t |-> "str", s |-> atoms, l |-> <<>>, d |-> <<>>]
Num(digits) == [t |-> "num", s |-> <<digits>>, l |-> <<>>, d |-> <<>>]
Bool(b) == [t |-> "bool", s |-> <<IF b THEN "True" ELSE "False">>, l |-> <<>>, d |-> <<>>]
List(elems) == [t |-> "list", s |-> <<>>, l |-> elems, d |-> <<>>]
Dict(items) == [t |-> "dict", s |-> <<>>, l |-> <<>>, d |-> items]
Item(key, val) == [k |-> key, v |-> val]
W(word) == Str(<<word>>)

IsNone(v) == v.t = "none"
IsStr(v) == v.t = "str"
IsList(v) == v.t = "list"
IsDict(v) == v.t = "dict"

\* key in d, for a dict d
HasKey(dv, key) == \E i \in 1..Len(dv.d) : dv.d[i].k = key

\* d[key], for a key that is present
GetKey(dv, key) == dv.d[CHOOSE i \in 1..Len(dv.d) : dv.d[i].k = key].v

\* d.get(key): None when the key is absent
DictGet(dv, key) == IF HasKey(dv, key) THEN GetKey(dv, key) ELSE None

\* d.get(key, default)
DictGetOr(dv, key, default) == IF HasKey(dv, key) THEN GetKey(dv, key) ELSE default

\* d[key] = val: a present key keeps its place, a new key goes last
DictPut(items, key, val) ==
    IF \E i \in 1..Len(items) : items[i].k = key
    THEN [i \in 1..Len(items) |-> IF items[i].k = key THEN Item(key, val) ELSE items[i]]
    ELSE Append(items, Item(key, val))

\* bool(v)
Truthy(v) ==
    CASE v.t = "none" -> FALSE
      [] v.t = "bool" -> v.s = <<"True">>
      [] v.t = "num" -> v.s # <<"0">>
      [] v.t = "str" -> v.s # <<>>
      [] v.t = "list" -> v.l # <<>>
      [] v.t = "dict" -> v.d # <<>>

\* a or b
PyOr(a, b) == IF Truthy(a) THEN a ELSE b

----------------------------------------------------------------------------
(* Text: sequences of atoms *)

QUOTE == "\""
ESCQUOTE == "\\\""
\* the code-fence marker, three backticks
FENCE == "<bt3>"
NL == "\n"
SP == " "

Whitespace == {SP, NL}
Digits == {"0", "1", "5", "7"}

\* the number of characters an atom stands for
Width(a) ==
    CASE a = "query_understanding" -> 19
      [] a = "results" -> 7
      [] a = "Thanks" -> 6
      [] a = "Here" -> 4
      [] a = "json" -> 4
      [] a = "rank" -> 4
      [] a = "are" -> 3
      [] a = FENCE -> 3
      [] a = ESCQUOTE -> 2
      [] a = "No response" -> 11
      [] a = "data" -> 4
      [] a = "DONE" -> 4
      [] OTHER -> 1

RECURSIVE TextLen(_)
\* len(text), for a str
TextLen(text) == IF text = <<>> THEN 0 ELSE Width(Head(text)) + TextLen(Tail(text))

\* whether pat occurs in text at position i
OccursAt(text, pat, i) ==
    /\ i >= 1
    /\ i + Len(pat) - 1 <= Len(text)
    /\ \A n \in 1..Len(pat) : text[i + n - 1] = pat[n]

RECURSIVE FindFrom(_, _, _)
\* text.find(pat, i): the first position >= i where pat occurs, 0 when none
FindFrom(text, pat, i) ==
    IF i + Len(pat) - 1 > Len(text) THEN 0
    ELSE IF OccursAt(text, pat, i) THEN i
    ELSE FindFrom(text, pat, i + 1)

RECURSIVE Replace(_, _)
\* text.replace(pat, empty): every occurrence, left to right, not overlapping
Replace(text, pat) ==
    IF text = <<>> THEN <<>>
    ELSE IF OccursAt(text, pat, 1)
         THEN Replace(SubSeq(text, Len(pat) + 1, Len(text)), pat)
         ELSE <<Head(text)>> \o Replace(Tail(text), pat)

\* needle in text, for two strs
SubstringOf(needle, text) == FindFrom(text, needle, 1) # 0

----------------------------------------------------------------------------
(* json.loads *)

\* what a parsing step gives: the value read and the position after it
ParseOk(val, next) == [ok |-> TRUE, v |-> val, i |-> next]
ParseFail == [ok |-> FALSE, v |-> None, i |-> 0]

RECURSIVE SkipWs(_, _)
\* the first position >= i that holds no whitespace
SkipWs(text, i) ==
    IF i <= Len(text) /\ text[i] \in Whitespace THEN SkipWs(text, i + 1) ELSE i

RECURSIVE ScanString(_, _, _)
\* a string literal, from the position after its opening quote: it ends at the
\* next quote; a raw newline inside it is an error; an escaped quote is a quote
ScanString(text, i, acc) ==
    IF i > Len(text) THEN ParseFail
    ELSE IF text[i] = QUOTE THEN ParseOk(Str(acc), i + 1)
    ELSE IF text[i] = NL THEN ParseFail
    ELSE IF text[i] = ESCQUOTE THEN ScanString(text, i + 1, Append(acc, QUOTE))
    ELSE ScanString(text, i + 1, Append(acc, text[i]))

RECURSIVE ParseValue(_, _)
RECURSIVE ParseMembers(_, _, _)
RECURSIVE ParseElements(_, _, _)

\* after a member: a closing brace ends the object, a comma announces a member
AfterMember(text, items, ni) ==
    IF ni > Len(text) THEN ParseFail
    ELSE IF text[ni] = "}" THEN ParseOk(Dict(items), ni + 1)
    ELSE IF text[ni] = "," THEN ParseMembers(text, ni + 1, items)
    ELSE ParseFail

\* a member's value has been read (or not)
MemberValue(text, acc, key, val) ==
    IF ~val.ok THEN ParseFail
    ELSE AfterMember(text, DictPut(acc, key, val.v), SkipWs(text, val.i))

\* a member's key has been read: a colon and the value follow
MemberColon(text, acc, key, ci) ==
    IF ci > Len(text) \/ text[ci] # ":" THEN ParseFail
    ELSE MemberValue(text, acc, key, ParseValue(text, ci + 1))

MemberKey(text, acc, key) ==
    IF ~key.ok THEN ParseFail ELSE MemberColon(text, acc, key.v.s, SkipWs(text, key.i))

\* a member starts with the opening quote of its key
MemberStart(text, acc, ki) ==
    IF ki > Len(text) \/ text[ki] # QUOTE THEN ParseFail
    ELSE MemberKey(text, acc, ScanString(text, ki + 1, <<>>))

\* the members of an object, from position i on, after the members in acc
ParseMembers(text, i, acc) == MemberStart(text, acc, SkipWs(text, i))

\* after an element: a closing bracket ends the array, a comma announces an element
AfterElement(text, elems, ni) ==
    IF ni > Len(text) THEN ParseFail
    ELSE IF text[ni] = "]" THEN ParseOk(List(elems), ni + 1)
    ELSE IF text[ni] = "," THEN ParseElements(text, ni + 1, elems)
    ELSE ParseFail

ElementValue(text, acc, val) ==
    IF ~val.ok THEN ParseFail
    ELSE AfterElement(text, Append(acc, val.v), SkipWs(text, val.i))

\* the elements of an array, from position i on, after the elements in acc
ParseElements(text, i, acc) == ElementValue(text, acc, ParseValue(text, i))

\* an object whose opening brace has been read: it is empty, or has members
ObjectAt(text, mi) ==
    IF mi <= Len(text) /\ text[mi] = "}" THEN ParseOk(Dict(<<>>), mi + 1)
    ELSE ParseMembers(text, mi, <<>>)

\* an array whose opening bracket has been read: it is empty, or has elements
ArrayAt(text, ei) ==
    IF ei <= Len(text) /\ text[ei] = "]" THEN ParseOk(List(<<>>), ei + 1)
    ELSE ParseElements(text, ei, <<>>)

\* the value that starts at position vi, which holds no whitespace
ValueAt(text, vi) ==
    IF vi > Len(text) THEN ParseFail
    ELSE IF text[vi] = "{" THEN ObjectAt(text, SkipWs(text, vi + 1))
    ELSE IF text[vi] = "[" THEN ArrayAt(text, SkipWs(text, vi + 1))
    ELSE IF text[vi] = QUOTE THEN ScanString(text, vi + 1, <<>>)
    ELSE IF text[vi] \in Digits THEN ParseOk(Num(text[vi]), vi + 1)
    ELSE IF text[vi] = "null" THEN ParseOk(None, vi + 1)
    ELSE ParseFail

\* one JSON value, after any whitespace
ParseValue(text, i) == ValueAt(text, SkipWs(text, i))

\* the whole text must be one value, with whitespace allowed around it
WholeText(text, r) ==
    IF r.ok /\ SkipWs(text, r.i) = Len(text) + 1
    THEN [ok |-> TRUE, v |-> r.v]
    ELSE [ok |-> FALSE, v |-> None]

\* json.loads(text): [ok |-> FALSE] stands for JSONDecodeError
json_loads(text) == WholeText(text, ParseValue(text, 1))

----------------------------------------------------------------------------
(* re.search(r'\{[\s\S]*?"query_understanding"[\s\S]*?"results"[\s\S]*?\}(?:\s*\})?$', text) *)

QuotedQU == <<QUOTE, "query_understanding", QUOTE>>
QuotedResults == <<QUOTE, "results", QUOTE>>

\* where $ lets the match end: at the end of the text, or before one last newline
MatchEnd(text) ==
    IF text # <<>> /\ text[Len(text)] = NL THEN Len(text) - 1 ELSE Len(text)

\* the text matched, <<>> when there is no match. The match starts at the
\* leftmost brace that is followed, in this order, by the two quoted names and
\* a closing brace, and that closing brace is the last character before $
\* (alone, or as the optional second brace of the pattern).
re_search(text) ==
    LET e == MatchEnd(text)
        open == FindFrom(text, <<"{">>, 1)
        qu == IF open = 0 THEN 0 ELSE FindFrom(text, QuotedQU, open + 1)
        res == IF qu = 0 THEN 0 ELSE FindFrom(text, QuotedResults, qu + Len(QuotedQU))
    IN IF res # 0 /\ res + Len(QuotedResults) <= e /\ text[e] = "}"
       THEN SubSeq(text, open, e)
       ELSE <<>>

----------------------------------------------------------------------------
(* parse_rag_response *)

\* the keys the parser reads
K(word) == <<word>>
QU == K("query_understanding")
RESULTS == K("results")
RAW == K("raw_response")

\* texts of this many characters or fewer are skipped in the list branch
MinTextLen == 50

\* how a step of the parser ends: "ret" returns v, "exc" raises an exception,
\* "go" falls through to the next step with v as the working value
Ret(val) == [kind |-> "ret", v |-> val]
Exc == [kind |-> "exc", v |-> None]
Go(val) == [kind |-> "go", v |-> val]

\* a step that fell through is followed by the next one
OrElse(o, next) == IF o.kind = "go" THEN next ELSE o

\* len(v): a number has no len() (TypeError)
HasLen(v) == v.t \in {"str", "list", "dict"}
PyLen(v) ==
    CASE v.t = "str" -> TextLen(v.s)
      [] v.t = "list" -> Len(v.l)
      [] v.t = "dict" -> Len(v.d)
      [] OTHER -> 0

\* word in v: a key of a dict, an element of a list, a substring of a str;
\* any other v raises TypeError
CanContain(v) == v.t \in {"str", "list", "dict"}
Contains(v, word) ==
    CASE v.t = "dict" -> HasKey(v, K(word))
      [] v.t = "list" -> \E n \in 1..Len(v.l) : v.l[n] = W(word)
      [] v.t = "str" -> SubstringOf(K(word), v.s)
      [] OTHER -> FALSE

\* the envelope is not unwrapped
UnwrapEnvelope_Skip(resp) == resp

\* lines 240-241: a mapping with 'raw_response' is replaced by that value
UnwrapEnvelope(resp) ==
    IF IsDict(resp) /\ HasKey(resp, RAW) THEN GetKey(resp, RAW) ELSE resp

\* the str is not decoded
DecodeString_Skip(resp) == Go(resp)

\* lines 246-249: the decoded value goes on; a str that is not JSON returns None
Decoded(p) == IF p.ok THEN Go(p.v) ELSE Ret(None)

\* lines 244-249: a str is decoded
DecodeString(resp) == IF IsStr(resp) THEN Decoded(json_loads(resp.s)) ELSE Go(resp)

\* the second key is looked up under the name 'result'
HasExpectedStructure_Typo(resp) == HasKey(resp, QU) /\ HasKey(resp, K("result"))

\* line 254: the mapping already has the expected structure
HasExpectedStructure(resp) == HasKey(resp, QU) /\ HasKey(resp, RESULTS)

\* lines 269-274: the text under a key was handed to json.loads; next is the
\* rest of the loop
ProbeParsed(p, next) ==
    IF ~p.ok THEN next
    ELSE IF ~CanContain(p.v) THEN Exc
    ELSE IF Contains(p.v, "query_understanding") /\ Contains(p.v, "results") THEN Ret(p.v)
    ELSE next

\* lines 267-280: the value under a key that is present
ProbeContent(content, next) ==
    IF IsStr(content) THEN ProbeParsed(json_loads(content.s), next)
    ELSE IF IsDict(content) /\ HasKey(content, QU) THEN Ret(content)
    ELSE IF IsList(content) THEN Go(content)
    ELSE next

RECURSIVE ProbeKeys(_, _)
\* lines 265-280: the loop over 'content', 'text', 'result'
ProbeKeys(resp, keys) ==
    IF keys = <<>> THEN Go(resp)
    ELSE IF ~HasKey(resp, Head(keys)) THEN ProbeKeys(resp, Tail(keys))
    ELSE ProbeContent(GetKey(resp, Head(keys)), ProbeKeys(resp, Tail(keys)))

\* lines 252-280: the mapping branch
MappingBranch(resp) ==
    IF ~IsDict(resp) THEN Go(resp)
    ELSE IF HasExpectedStructure(resp) THEN Ret(resp)
    ELSE IF HasKey(resp, K("output")) /\ IsList(GetKey(resp, K("output")))
         THEN Go(GetKey(resp, K("output")))
         ELSE ProbeKeys(resp, <<K("content"), K("text"), K("result")>>)

\* line 300: the code-fence markers are removed
StripFences(text) == Replace(Replace(text, <<FENCE, "json">>), <<FENCE>>)

\* lines 313-317: what the regex matched was handed to json.loads
RegexParsed(q) == IF q.ok THEN Ret(q.v) ELSE Go(None)

\* lines 311-317
RegexMatched(m) == IF m = <<>> THEN Go(None) ELSE RegexParsed(json_loads(m))

\* lines 310-317: the regex fallback, on the text without its fences
RegexFallback(text) == RegexMatched(re_search(text))

\* lines 302-304 and 323-324: a decoded mapping with 'query_understanding'
AcceptDoc(p) == IF p.ok /\ IsDict(p.v) /\ HasKey(p.v, QU) THEN Ret(p.v) ELSE Go(None)

\* lines 301-317: the text without its fences was handed to json.loads
DecodeStripped(stripped, p) == IF p.ok THEN AcceptDoc(p) ELSE RegexFallback(stripped)

DecodeFenceless(stripped) == DecodeStripped(stripped, json_loads(stripped))

\* lines 299-317: a candidate text is decoded, by json.loads or by the regex
DecodeCandidate(text) == DecodeFenceless(StripFences(text))

\* the comparison is >= instead of >
LongEnough_AtLeast(text) == PyLen(text) >= MinTextLen

\* line 297: len(text) > 50
LongEnough(text) == PyLen(text) > MinTextLen

\* line 296: content_block.get('text') or content_block.get('output_text')
BlockText(block) == PyOr(DictGet(block, K("text")), DictGet(block, K("output_text")))

\* lines 297-317: the text of a content block
TryText(text) ==
    IF ~Truthy(text) THEN Go(None)
    ELSE IF ~HasLen(text) THEN Exc
    ELSE IF ~LongEnough(text) THEN Go(None)
    ELSE IF ~IsStr(text) THEN Exc
    ELSE DecodeCandidate(text.s)

\* lines 294-317: one content block
TryBlock(block) == IF ~IsDict(block) THEN Go(None) ELSE TryText(BlockText(block))

RECURSIVE ScanBlocks(_)
\* line 293: the content blocks, first to last
ScanBlocks(blocks) ==
    IF blocks = <<>> THEN Go(None)
    ELSE OrElse(TryBlock(Head(blocks)), ScanBlocks(Tail(blocks)))

\* line 288: the item is an assistant message
IsAssistantMessage(item) ==
    /\ IsDict(item)
    /\ DictGet(item, K("type")) = W("message")
    /\ DictGet(item, K("role")) = W("assistant")

\* lines 289-326: the content of an assistant message
TryContent(content) ==
    IF IsList(content) THEN ScanBlocks(content.l)
    ELSE IF IsStr(content) THEN AcceptDoc(json_loads(content.s))
    ELSE Go(None)

\* lines 286-326: one item of the list
TryItem(item) ==
    IF ~IsAssistantMessage(item) THEN Go(None)
    ELSE TryContent(DictGetOr(item, K("content"), List(<<>>)))

\* reversed(response): the item looked at after item n
NextItem(n) == n - 1

RECURSIVE ScanItems(_, _)
\* line 285: the items from the last one to the first, item n next
ScanItems(items, n) ==
    IF n < 1 \/ n > Len(items) THEN Go(None)
    ELSE OrElse(TryItem(items[n]), ScanItems(items, NextItem(n)))

\* lines 283-332: the list branch, then the final return None
ListBranch(resp) ==
    IF IsList(resp) THEN OrElse(ScanItems(resp.l, Len(resp.l)), Ret(None)) ELSE Ret(None)

AfterMapping(m) == IF m.kind = "go" THEN ListBranch(m.v) ELSE m

AfterDecode(decoded) ==
    IF decoded.kind = "go" THEN AfterMapping(MappingBranch(decoded.v)) ELSE decoded

\* lines 239-332: the body of the try
ParseBody(resp) == AfterDecode(DecodeString(UnwrapEnvelope(resp)))

\* no except clause: the exception leaves the call
CatchAll_Reraise(o) == o

\* lines 334-336: except Exception: return None
CatchAll(o) == IF o.kind = "exc" THEN Ret(None) ELSE o

\* parse_rag_response(response): kind "ret" with the value returned, or kind
\* "exc" when an exception leaves the call
parse_rag_response(resp) == CatchAll(ParseBody(resp))

----------------------------------------------------------------------------
(* The replies the parser is run on *)

\* the longest run of spaces put in front of a candidate text
MaxPad == 11
\* the most items in a list of messages
MaxMsgs == 2

Spaces(n) == [i \in 1..n |-> SP]
Quoted(word) == <<QUOTE, word, QUOTE>>

\* {"query_understanding":"<u>","results":[]}: 40 characters
DocText(u) ==
    <<"{">> \o QuotedQU \o <<":">> \o Quoted(u) \o <<",">> \o QuotedResults
        \o <<":", "[", "]", "}">>
\* {"query_understanding":"<u>","results":[{"rank":1}]}: 50 characters
RankedDocText(u) ==
    <<"{">> \o QuotedQU \o <<":">> \o Quoted(u) \o <<",">> \o QuotedResults
        \o <<":", "[", "{">> \o Quoted("rank") \o <<":", "1", "}", "]", "}">>
\* {"query_understanding":"x"}
QUOnlyText == <<"{">> \o QuotedQU \o <<":">> \o Quoted("x") \o <<"}">>
\* {"a":"x"}
OtherText == <<"{">> \o Quoted("a") \o <<":">> \o Quoted("x") \o <<"}">>
\* {"a":{"query_understanding":"x","results":[{"rank":1}]}}
NestedText == <<"{">> \o Quoted("a") \o <<":">> \o RankedDocText("x") \o <<"}">>
\* {"a":"query_understanding","b":"results"}
ValuesText ==
    <<"{">> \o Quoted("a") \o <<":">> \o QuotedQU \o <<",">> \o Quoted("b")
        \o <<":">> \o QuotedResults \o <<"}">>
\* ["query_understanding","results"]
NamesListText == <<"[">> \o QuotedQU \o <<",">> \o QuotedResults \o <<"]">>
\* "query_understanding results"
NamesStrText == <<QUOTE, "query_understanding", SP, "results", QUOTE>>
\* Here are results:
Prose == <<"Here", SP, "are", SP, "results", ":", SP>>
\*  Thanks
Thanks == <<SP, "Thanks">>

\* the JSON documents a candidate text is built around
Bodies ==
    { DocText("x"), RankedDocText("x"), QUOnlyText, OtherText, NestedText,
      ValuesText, NamesListText, <<"5">>, DocText(FENCE) }

\* a body as an endpoint may send it: bare, in a code fence, with prose before
\* it, after it or around it, or with a last newline
Decorated(body) ==
    { body,
      <<FENCE, "json", NL>> \o body \o <<NL, FENCE>>,
      Prose \o body,
      body \o Thanks,
      Prose \o body \o Thanks,
      Prose \o body \o <<NL>> }

CandidateTexts ==
    UNION { { Spaces(n) \o t : n \in 0..MaxPad } : t \in UNION { Decorated(b) : b \in Bodies } }

Message(role, content) ==
    Dict(<<Item(K("type"), W("message")), Item(K("role"), W(role)),
           Item(K("content"), content)>>)
Block(key, text) == Dict(<<Item(K("type"), W("output_text")), Item(K(key), text)>>)
TextMessage(text) == Message("assistant", List(<<Block("text", Str(text))>>))

\* the value json.loads gives for a text that is JSON
J(text) == json_loads(text).v

\* the items a list of messages is made of
Items ==
    { TextMessage(<<FENCE, "json", NL>> \o RankedDocText("x") \o <<NL, FENCE>>),
      TextMessage(Spaces(MaxPad) \o DocText("a")),
      TextMessage(DocText("b")),
      TextMessage(Prose \o RankedDocText("x") \o Thanks),
      TextMessage(<<"x">>),
      Message("assistant", List(<<Block("text", Num("7"))>>)),
      Message("assistant", List(<<Block("text", Str(<<>>)),
                                  Block("output_text", Str(Prose \o RankedDocText("b")))>>)),
      Message("assistant", Str(DocText("5"))),
      Message("assistant", None),
      Message("user", List(<<Block("text", Str(Spaces(MaxPad) \o DocText("7")))>>)),
      W("x") }

RECURSIVE SeqsUpTo(_, _)
\* the sequences over S of length 0..n
SeqsUpTo(S, n) ==
    IF n = 0 THEN {<<>>}
    ELSE LET shorter == SeqsUpTo(S, n - 1) IN
         shorter \cup { Append(q, x) : q \in shorter, x \in S }

MessageLists == { List(q) : q \in SeqsUpTo(Items, MaxMsgs) }

\* a list holding one assistant message with one content block
SingleMessageLists == { List(<<TextMessage(t)>>) : t \in CandidateTexts }

\* values found under a key of a reply, or sent as the reply
PlainValues ==
    { J(DocText("x")), J(QUOnlyText), J(OtherText),
      Dict(DictPut(J(DocText("x")).d, K("recommended_action"), W("x"))),
      Str(DocText("x")), Str(QUOnlyText), Str(NamesListText), Str(NamesStrText),
      Str(<<"5">>), Str(Prose), Str(OtherText),
      Num("5"), None,
      List(<<>>), List(<<TextMessage(Spaces(MaxPad) \o DocText("a"))>>) }

\* a reply that is not an envelope of the executor
BareReplies ==
    PlainValues \cup MessageLists \cup SingleMessageLists
    \cup { Dict(<<Item(K(key), v)>>) :
             key \in {"content", "text", "result", "output"},
             v \in PlainValues \cup MessageLists }
    \cup { Dict(<<Item(K("content"), v), Item(K("text"), w)>>) :
             v \in PlainValues, w \in PlainValues }
    \cup { Dict(<<Item(K("text"), v), Item(K("result"), w)>>) :
             v \in PlainValues, w \in PlainValues }

\* the message query_endpoint builds around a raw reply, with the flattened
\* content beside it, and the same without the other keys
Enveloped(raw, content) ==
    Dict(<<Item(K("role"), W("assistant")), Item(K("content"), content), Item(RAW, raw)>>)
Envelopes(raws) ==
    { Dict(<<Item(RAW, raw)>>) : raw \in raws }
    \cup { Enveloped(raw, content) : raw \in raws, content \in {Str(DocText("7")), Str(Prose)} }

\* a document that also carries a 'raw_response' key
DocsWithRaw == { Dict(DictPut(J(DocText("x")).d, RAW, v)) : v \in PlainValues }

RECURSIVE Escaped(_)
\* a text as it stands inside a JSON string literal: its quotes escaped
Escaped(text) ==
    IF text = <<>> THEN <<>>
    ELSE <<IF Head(text) = QUOTE THEN ESCQUOTE ELSE Head(text)>> \o Escaped(Tail(text))

\* [{"type":"message","role":"assistant","content":[{"type":"output_text","text":"<text>"}]}]
MessageListText(text) ==
    <<"[", "{">> \o Quoted("type") \o <<":">> \o Quoted("message") \o <<",">>
        \o Quoted("role") \o <<":">> \o Quoted("assistant") \o <<",">>
        \o Quoted("content") \o <<":", "[", "{">>
        \o Quoted("type") \o <<":">> \o Quoted("output_text") \o <<",">>
        \o Quoted("text") \o <<":", QUOTE>> \o Escaped(text) \o <<QUOTE, "}", "]", "}", "]">>
\* {"<key>":<body>}
WrappedText(key, body) == <<"{">> \o Quoted(key) \o <<":">> \o body \o <<"}">>

\* texts sent as the whole reply: JSON encodings of mappings and lists, of
\* other values, and texts that are not JSON
ReplyTexts ==
    { DocText("x"), RankedDocText("x"), QUOnlyText, OtherText, NestedText,
      Spaces(2) \o DocText("x") \o <<NL>>,
      WrappedText("content", DocText("x")),
      WrappedText("result", Quoted("x")),
      WrappedText("raw_response", DocText("x")),
      WrappedText("raw_response", MessageListText(Spaces(MaxPad) \o DocText("a"))),
      WrappedText("raw_response", Quoted("x")),
      MessageListText(Spaces(MaxPad) \o DocText("a")),
      MessageListText(DocText("b")),
      MessageListText(<<FENCE, "json", NL>> \o RankedDocText("x") \o <<NL, FENCE>>),
      NamesListText, <<"[", "]">>, <<"[", "5", "]">>,
      NamesStrText, <<"5">>,
      Prose, <<>>, Prose \o DocText("x"), DocText("x") \o Thanks,
      <<"{">> \o QuotedQU, <<"[", "5", ",", "]">>,
      <<FENCE, "json", NL>> \o DocText("x") \o <<NL, FENCE>> }
EncodedReplies == { Str(t) : t \in ReplyTexts }

ParseInputs ==
    BareReplies \cup Envelopes(BareReplies) \cup Envelopes(Envelopes(PlainValues))
    \cup DocsWithRaw \cup EncodedReplies \cup Envelopes(EncodedReplies)

----------------------------------------------------------------------------
(* The parser as a state machine: one call on one reply *)

\* no call of the function is under way
ParseIdle == response = None /\ result = None /\ raised = FALSE /\ ppc = "idle"
QueryIdle ==
    /\ qpc = "idle"
    /\ sent = <<>>
    /\ agentRes = None
    /\ chatRes = None
    /\ sendOk = <<FALSE, FALSE>>
    /\ qresult = None
    /\ qmessages = List(<<>>)
    /\ qmax = None
SupportIdle ==
    lookup = None /\ supported = None /\ supportRaised = FALSE /\ spc = "idle"
StreamIdle == units = <<>> /\ yielded = <<>> /\ held = FALSE /\ tpc = "idle"
ExtractIdle ==
    chunk = None /\ extracted = None /\ extractRaised = FALSE /\ epc = "idle"
\* no search has run in the session
NoSearch == [kind |-> "none", v |-> None]
\* app.py lines 835-844: the session state of a new session, nothing on the page
UiIdle ==
    /\ searched = FALSE
    /\ results_data = None
    /\ access_requested = {}
    /\ requests = <<>>
    /\ lastSearch = NoSearch
    /\ cards = <<>>
    /\ runs = 0

InitParse ==
    /\ response \in ParseInputs
    /\ result = None
    /\ raised = FALSE
    /\ ppc = "called"
    /\ QueryIdle /\ SupportIdle /\ StreamIdle /\ ExtractIdle /\ UiIdle

\* the call ends as o says
ParseEnds(o) ==
    /\ result' = o.v
    /\ raised' = (o.kind = "exc")

\* the call runs to its end
Parse ==
    /\ ppc = "called"
    /\ ParseEnds(parse_rag_response(response))
    /\ ppc' = "done"
    /\ UNCHANGED <<response, queryVars, supportVars, streamVars, extractVars, uiVars>>

NextParse == Parse

SpecParse == InitParse /\ [][NextParse]_vars

----------------------------------------------------------------------------
(* str(v) *)

\* the characters of a str inside its repr: a newline is written \n
ReprChars(text) == [i \in 1..Len(text) |-> IF text[i] = NL THEN "\\n" ELSE text[i]]

RECURSIVE PyRepr(_)
RECURSIVE ReprElems(_)
RECURSIVE ReprItems(_)

\* the elements of a list, separated by a comma and a space
ReprElems(elems) ==
    IF elems = <<>> THEN <<>>
    ELSE PyRepr(Head(elems)) \o (IF Len(elems) > 1 THEN <<",", SP>> ELSE <<>>)
             \o ReprElems(Tail(elems))

\* the items of a dict, each key: value
ReprItems(items) ==
    IF items = <<>> THEN <<>>
    ELSE PyRepr(Str(Head(items).k)) \o <<":", SP>> \o PyRepr(Head(items).v)
             \o (IF Len(items) > 1 THEN <<",", SP>> ELSE <<>>) \o ReprItems(Tail(items))

\* repr(v), as text
PyRepr(v) ==
    CASE v.t = "str" -> <<"'">> \o ReprChars(v.s) \o <<"'">>
      [] v.t = "none" -> <<"None">>
      [] v.t = "list" -> <<"[">> \o ReprElems(v.l) \o <<"]">>
      [] v.t = "dict" -> <<"{">> \o ReprItems(v.d) \o <<"}">>
      [] OTHER -> v.s

\* str(v): a str is itself, any other value is its repr
PyStr(v) == IF IsStr(v) THEN v ELSE Str(PyRepr(v))

----------------------------------------------------------------------------
(* query_endpoint *)

\* line 91: max_tokens when the caller gives none
DefaultMaxTokens == Num("1000")

\* lines 29-44
_convert_messages_to_input(messages) ==
    IF Truthy(messages) THEN messages
    ELSE List(<<Dict(<<Item(K("role"), W("user")), Item(K("content"), Str(<<>>))>>)>>)

\* lines 100-104: the agent-style inputs
AgentEnvelope(messages, max_tokens) ==
    Dict(<<Item(K("input"), _convert_messages_to_input(messages)),
           Item(K("max_output_tokens"), max_tokens),
           Item(K("stream"), Bool(FALSE))>>)

\* line 138: the chat-style inputs
ChatEnvelope(messages, max_tokens) ==
    Dict(<<Item(K("messages"), messages), Item(K("max_tokens"), max_tokens)>>)

\* a message without the raw reply
Turn(role, content) == Dict(<<Item(K("role"), role), Item(K("content"), content)>>)

\* the four keys are not looked at
FirstPresent_Whole(res, keys) == res

RECURSIVE FirstPresent(_, _)
\* lines 115-127: the value under the first key that is present, the whole
\* mapping when none is
FirstPresent(res, keys) ==
    IF keys = <<>> THEN res
    ELSE IF HasKey(res, Head(keys)) THEN GetKey(res, Head(keys))
    ELSE FirstPresent(res, Tail(keys))

\* lines 113-129: what becomes the content, before str()
AgentContent(res) ==
    IF IsDict(res)
    THEN FirstPresent(res, <<K("output"), K("content"), K("text"), K("result")>>)
    ELSE res

\* lines 113-129: the message built from the agent-style reply
AgentMessage(res) ==
    Dict(<<Item(K("role"), W("assistant")), Item(K("content"), PyStr(AgentContent(res))),
           Item(RAW, res)>>)

\* lines 99-131: the first try; o is what client.predict did
AgentAttempt(o) == IF o.kind = "exc" THEN Exc ELSE Ret(AgentMessage(o.v))

\* the return is missing: the fallback runs after a success too
AfterAgent_Always(a) == "agent_failed"

\* lines 129-135: a message is returned; an exception leads to the fallback
AfterAgent(a) == IF a.kind = "ret" THEN "returned" ELSE "agent_failed"

\* the first element is taken
LastMessage_First(msgs) ==
    IF ~Truthy(msgs) THEN Ret(Turn(W("assistant"), W("No response")))
    ELSE IF IsList(msgs) THEN Ret(msgs.l[1])
    ELSE Exc

\* line 144: res["messages"][-1] if res["messages"] else the literal
NoResponse == Turn(W("assistant"), W("No response"))
LastMessage(msgs) ==
    IF ~Truthy(msgs) THEN Ret(NoResponse)
    ELSE IF IsList(msgs) THEN Ret(msgs.l[Len(msgs.l)])
    ELSE IF IsStr(msgs) THEN Ret(Str(<<msgs.s[Len(msgs.s)]>>))
    ELSE Exc

\* line 152: every part must have .get, and a part tagged "text" a str to join
PartsJoinable(parts) ==
    \A n \in 1..Len(parts) :
        /\ IsDict(parts[n])
        /\ DictGet(parts[n], K("type")) = W("text")
               => IsStr(DictGetOr(parts[n], K("text"), Str(<<>>)))

RECURSIVE JoinText(_)
\* line 152: the texts of the parts tagged "text", joined
JoinText(parts) ==
    IF parts = <<>> THEN <<>>
    ELSE (IF DictGet(Head(parts), K("type")) = W("text")
          THEN DictGetOr(Head(parts), K("text"), Str(<<>>)).s
          ELSE <<>>) \o JoinText(Tail(parts))

\* lines 150-160: the message built from a choice's message and its content
FromChoiceContent(choice_message, choice_content) ==
    IF IsList(choice_content)
    THEN IF PartsJoinable(choice_content.l)
         THEN Ret(Turn(DictGetOr(choice_message, K("role"), W("assistant")),
                       Str(JoinText(choice_content.l))))
         ELSE Exc
    ELSE IF IsStr(choice_content) THEN Ret(choice_message)
    ELSE Ret(Turn(W("assistant"), PyStr(choice_content)))

\* line 148: choice_message.get("content")
FromChoiceMessage(choice_message) ==
    IF ~IsDict(choice_message) THEN Exc
    ELSE FromChoiceContent(choice_message, DictGet(choice_message, K("content")))

\* line 147: res["choices"][0]["message"]
FirstChoice(choices) ==
    IF IsList(choices) /\ choices.l # <<>> /\ IsDict(choices.l[1])
           /\ HasKey(choices.l[1], K("message"))
    THEN FromChoiceMessage(GetKey(choices.l[1], K("message")))
    ELSE Exc

\* lines 142-164: the message built from the chat-style reply; the membership
\* tests raise on a value that is no container, the subscripts on one that is
\* no mapping
ChatMessage(res) ==
    IF ~CanContain(res) THEN Exc
    ELSE IF Contains(res, "messages")
         THEN IF IsDict(res) THEN LastMessage(GetKey(res, K("messages"))) ELSE Exc
    ELSE IF Contains(res, "choices")
         THEN IF IsDict(res) THEN FirstChoice(GetKey(res, K("choices"))) ELSE Exc
    ELSE Ret(Turn(W("assistant"), PyStr(res)))

\* lines 135-169: the second try; o is what client.predict did
ChatAttempt(o) == IF o.kind = "exc" THEN Exc ELSE ChatMessage(o.v)

\* lines 164-169: a message is returned; an exception is raised to the caller
AfterChat(c) == IF c.kind = "ret" THEN "returned" ELSE "raised"

----------------------------------------------------------------------------
(* The executor as a state machine: one call, one step per client.predict *)

\* the most turns in a conversation
MaxTurns == 2

Turns == { Turn(W("user"), W("q")), Turn(W("assistant"), W("a")) }
Conversations == { List(q) : q \in SeqsUpTo(Turns, MaxTurns) }

\* what the endpoint sends back to the agent-style request
AgentPayloads ==
    { Dict(<<Item(K("output"), List(<<TextMessage(Spaces(MaxPad) \o DocText("a"))>>))>>),
      Dict(<<Item(K("output"), W("x")), Item(K("content"), W("a"))>>),
      Dict(<<Item(K("content"), Num("5")), Item(K("text"), W("a"))>>),
      Dict(<<Item(K("text"), Str(DocText("x"))), Item(K("result"), W("a"))>>),
      Dict(<<Item(K("result"), J(DocText("x")))>>),
      Dict(<<Item(K("result"), W("a")), Item(K("output"), None)>>),
      J(DocText("x")), Dict(<<>>),
      List(<<Num("1")>>), W("x"), Num("5"), None }

\* what the endpoint sends back to the chat-style request
ChatPayloads ==
    { Dict(<<Item(K("messages"), List(<<>>))>>),
      Dict(<<Item(K("messages"), List(<<Turn(W("user"), W("q")), Turn(W("assistant"), W("a"))>>))>>),
      Dict(<<Item(K("messages"), List(<<Turn(W("user"), Num("5"))>>))>>),
      Dict(<<Item(K("messages"), List(<<W("x")>>)), Item(K("choices"), List(<<>>))>>),
      Dict(<<Item(K("messages"), W("x"))>>),
      Dict(<<Item(K("messages"), None)>>),
      Dict(<<Item(K("messages"), Num("5"))>>),
      Dict(<<Item(K("choices"), List(<<>>))>>),
      Dict(<<Item(K("choices"), List(<<Dict(<<Item(K("message"), Turn(W("assistant"), W("a")))>>)>>))>>),
      Dict(<<Item(K("choices"), List(<<Dict(<<Item(K("message"), Turn(W("user"), None))>>)>>))>>),
      Dict(<<Item(K("choices"), List(<<Dict(<<Item(K("message"), Dict(<<Item(K("content"), Num("5"))>>))>>)>>))>>),
      Dict(<<Item(K("choices"), List(<<Dict(<<Item(K("message"),
          Dict(<<Item(K("content"), List(<<
              Dict(<<Item(K("type"), W("text")), Item(K("text"), W("a"))>>),
              Dict(<<Item(K("type"), W("image")), Item(K("text"), W("x"))>>),
              Dict(<<Item(K("type"), W("text")), Item(K("text"), W("b"))>>)>>))>>))>>)>>))>>),
      Dict(<<Item(K("choices"), List(<<Dict(<<Item(K("message"),
          Turn(W("assistant"), List(<<W("x")>>)))>>)>>))>>),
      Dict(<<Item(K("choices"), List(<<Dict(<<Item(K("message"),
          Turn(W("assistant"), List(<<Dict(<<Item(K("type"), W("text")), Item(K("text"), Num("5"))>>)>>)))>>)>>))>>),
      Dict(<<Item(K("choices"), List(<<Dict(<<Item(K("message"), W("x"))>>)>>))>>),
      Dict(<<Item(K("choices"), List(<<Dict(<<Item(K("index"), Num("0"))>>)>>))>>),
      Dict(<<Item(K("choices"), W("x"))>>),
      Dict(<<Item(K("choices"), None)>>),
      J(DocText("x")), Dict(<<>>),
      List(<<W("choices")>>), List(<<Num("1")>>), W("messages"), W("x"), Str(<<>>),
      Num("5"), Bool(TRUE), None }

InitQuery ==
    /\ qpc = "start"
    /\ qmessages \in Conversations
    /\ qmax \in {DefaultMaxTokens, Num("5")}
    /\ sent = <<>>
    /\ agentRes = None
    /\ chatRes = None
    /\ sendOk = <<FALSE, FALSE>>
    /\ qresult = None
    /\ ParseIdle /\ SupportIdle /\ StreamIdle /\ ExtractIdle /\ UiIdle

\* lines 99-131 after client.predict has ended as o says
AgentEnds(a) ==
    /\ qpc' = AfterAgent(a)
    /\ qresult' = a.v

\* the agent-style request is sent and the endpoint answers res
AgentPredictReturns ==
    /\ qpc = "start"
    /\ \E res \in AgentPayloads :
        /\ agentRes' = res
        /\ AgentEnds(AgentAttempt(Ret(res)))
    /\ sent' = Append(sent, AgentEnvelope(qmessages, qmax))
    /\ sendOk' = <<TRUE, FALSE>>
    /\ UNCHANGED <<chatRes, qmessages, qmax, parseVars, supportVars, streamVars, extractVars, uiVars>>

\* the agent-style request is sent and client.predict raises
AgentPredictFails ==
    /\ qpc = "start"
    /\ AgentEnds(AgentAttempt(Exc))
    /\ sent' = Append(sent, AgentEnvelope(qmessages, qmax))
    /\ UNCHANGED <<agentRes, sendOk, chatRes, qmessages, qmax, parseVars, supportVars, streamVars, extractVars, uiVars>>

\* lines 135-169 after client.predict has ended as o says
ChatEnds(c) ==
    /\ qpc' = AfterChat(c)
    /\ qresult' = c.v

\* the chat-style request is sent and the endpoint answers res
ChatPredictReturns ==
    /\ qpc = "agent_failed"
    /\ \E res \in ChatPayloads :
        /\ chatRes' = res
        /\ ChatEnds(ChatAttempt(Ret(res)))
    /\ sent' = Append(sent, ChatEnvelope(qmessages, qmax))
    /\ sendOk' = <<sendOk[1], TRUE>>
    /\ UNCHANGED <<agentRes, qmessages, qmax, parseVars, supportVars, streamVars, extractVars, uiVars>>

\* the chat-style request is sent and client.predict raises
ChatPredictFails ==
    /\ qpc = "agent_failed"
    /\ ChatEnds(ChatAttempt(Exc))
    /\ sent' = Append(sent, ChatEnvelope(qmessages, qmax))
    /\ UNCHANGED <<agentRes, chatRes, sendOk, qmessages, qmax, parseVars, supportVars, streamVars, extractVars, uiVars>>

NextQuery ==
    \/ AgentPredictReturns
    \/ AgentPredictFails
    \/ ChatPredictReturns
    \/ ChatPredictFails

SpecQuery == InitQuery /\ [][NextQuery]_vars

----------------------------------------------------------------------------
(* Properties of parse_rag_response, checked under SpecParse *)

\* C1: every value parse_rag_response returns, other than None, is a mapping
\* that contains both 'query_understanding' and 'results'.
C1_ReturnsCanonicalMapping ==
    ppc = "done" /\ result # None
        => IsDict(result) /\ HasKey(result, QU) /\ HasKey(result, RESULTS)

\* C5: a content-block text longer than 50 characters in which a well-formed
\* object with both keys has prose before it and after it still gives that
\* object.
C5_EmbeddedObjectRecovered ==
    ppc = "done" =>
        \A n \in 0..MaxPad, body \in {DocText("x"), RankedDocText("x")} :
            response = List(<<TextMessage(Spaces(n) \o Prose \o body \o Thanks)>>)
                => result = J(body)

\* the items of a list that yield a document on their own
Qualifying(items) == { n \in 1..Len(items) : TryItem(items[n]).kind = "ret" }
Latest(S) == CHOOSE n \in S : \A m \in S : m <= n

\* C6: for a list of messages the result is the document of the latest item
\* that yields one, and None when no item yields one.
C6_LatestQualifyingMessageWins ==
    ppc = "done" /\ IsList(response) =>
        IF Qualifying(response.l) = {}
        THEN result = None
        ELSE result = TryItem(response.l[Latest(Qualifying(response.l))]).v

\* the item is an assistant message whose content blocks all carry a text of
\* at most 50 characters
ShortTextMessage(item) ==
    /\ IsAssistantMessage(item)
    /\ IsList(DictGet(item, K("content")))
    /\ \A b \in 1..Len(DictGet(item, K("content")).l) :
        LET block == DictGet(item, K("content")).l[b] IN
        /\ IsDict(block)
        /\ IsStr(BlockText(block))
        /\ TextLen(BlockText(block).s) <= MinTextLen

\* the result is what a content-block text of more than 50 characters decodes
\* to, or what the string content of an assistant message decodes to
FromLongTextOrStringContent(items, doc) ==
    \E n \in 1..Len(items) :
        /\ IsAssistantMessage(items[n])
        /\ LET content == DictGetOr(items[n], K("content"), List(<<>>)) IN
           \/ /\ IsList(content)
              /\ \E b \in 1..Len(content.l) :
                    /\ IsDict(content.l[b])
                    /\ IsStr(BlockText(content.l[b]))
                    /\ TextLen(BlockText(content.l[b]).s) > MinTextLen
                    /\ DecodeCandidate(BlockText(content.l[b]).s) = Ret(doc)
           \/ /\ IsStr(content)
              /\ AcceptDoc(json_loads(content.s)) = Ret(doc)

C8_NeverRaises ==
    ppc = "done" =>
        /\ ~raised
        /\ ParseBody(response).kind # "ret" => result = None

\* the body raised (a TypeError or an AttributeError) and the call returned None
C8_Witness ==
    /\ ppc = "done"
    /\ ParseBody(response).kind = "exc"
    /\ ~raised
    /\ result = None

\* C9 as stated: every mapping with both keys at its top level, whatever its
\* other keys, is returned unchanged.
C9_PassThroughAnyKeys ==
    ppc = "done" /\ IsDict(response) /\ HasKey(response, QU) /\ HasKey(response, RESULTS)
        => result = response

\* C9: every mapping with both keys at its top level and without the key
\* 'raw_response' is returned unchanged.
C9_PassThrough ==
    /\ ppc = "done"
    /\ IsDict(response) /\ HasKey(response, QU) /\ HasKey(response, RESULTS)
    /\ ~HasKey(response, RAW)
    => result = response

\* a document with a third key was returned as it is
C9_Witness ==
    /\ ppc = "done"
    /\ IsDict(response) /\ HasKey(response, QU) /\ HasKey(response, RESULTS)
    /\ HasKey(response, K("recommended_action"))
    /\ ~HasKey(response, RAW)
    /\ result = response

\* the call was made on an envelope around a mapping, a list or a text
EnvelopeAroundReply ==
    /\ ppc = "done"
    /\ IsDict(response) /\ HasKey(response, RAW)
    /\ GetKey(response, RAW).t \in {"dict", "list", "str"}

\* C10 as stated: for every raw reply v, the result for {'raw_response': v}
\* with any other keys is the result for v.
C10_UnwrapAnyReply ==
    EnvelopeAroundReply => result = parse_rag_response(GetKey(response, RAW)).v

\* C10: for every raw reply v that is not itself a mapping with the key
\* 'raw_response', the result for {'raw_response': v} with any other keys is
\* the result for v.
C10_UnwrapOnce ==
    /\ EnvelopeAroundReply
    /\ ~HasKey(GetKey(response, RAW), RAW)
    => result = parse_rag_response(GetKey(response, RAW)).v

\* an envelope with a role and a flattened content around a list of messages
\* gave the document of the list
C10_Witness ==
    /\ EnvelopeAroundReply
    /\ HasKey(response, K("role")) /\ HasKey(response, K("content"))
    /\ IsList(GetKey(response, RAW))
    /\ result # None
    /\ result = parse_rag_response(GetKey(response, RAW)).v

----------------------------------------------------------------------------
(* Properties of query_endpoint, checked under SpecQuery *)

\* the call has ended
QueryEnded == qpc \in {"returned", "raised"}

\* C2: query_endpoint raises exactly when both sends failed; when either send
\* returned a payload it returns a message.
C2_RaisesIffBothSendsFail ==
    QueryEnded => (qpc = "raised" <=> sendOk = <<FALSE, FALSE>>)

IsAgentStyle(inputs) ==
    /\ HasKey(inputs, K("input")) /\ HasKey(inputs, K("max_output_tokens"))
    /\ DictGet(inputs, K("stream")) = Bool(FALSE)
    /\ ~HasKey(inputs, K("messages"))
IsChatStyle(inputs) ==
    /\ HasKey(inputs, K("messages")) /\ HasKey(inputs, K("max_tokens"))
    /\ ~HasKey(inputs, K("input"))

\* C3: the first request sent is the agent-style one, the second, if any, is
\* the chat-style one and is sent only when the agent-style request did not
\* return; there is no third request.
C3_AgentFirstChatOnlyAfterFailure ==
    /\ Len(sent) <= 2
    /\ Len(sent) >= 1 => IsAgentStyle(sent[1])
    /\ Len(sent) = 2 => IsChatStyle(sent[2]) /\ ~sendOk[1]
    /\ QueryEnded /\ sendOk[1] => Len(sent) = 1

\* the agent-style request failed and the chat-style one gave the message
C3_Witness ==
    /\ qpc = "returned"
    /\ Len(sent) = 2
    /\ sendOk = <<FALSE, TRUE>>

\* C4: every message returned has role "assistant", a text as content and,
\* under raw_response, the payload of the send that succeeded.
C4_ReturnedMessageShape ==
    qpc = "returned" =>
        /\ IsDict(qresult)
        /\ DictGet(qresult, K("role")) = W("assistant")
        /\ IsStr(DictGet(qresult, K("content")))
        /\ HasKey(qresult, RAW)
        /\ DictGet(qresult, RAW) = IF sendOk[1] THEN agentRes ELSE chatRes

----------------------------------------------------------------------------
(* The string-decode step of parse_rag_response, checked under SpecParse *)

\* the call was made on a text
TextReply == ppc = "done" /\ IsStr(response)

\* C11 as stated: a text that is not JSON gives None, and a text that is the
\* JSON encoding of a mapping or list d gives the result of the call on d.
C11_TextDecodedThenParsed ==
    TextReply =>
        IF ~json_loads(response.s).ok THEN result = None
        ELSE J(response.s).t \in {"dict", "list"}
                => result = parse_rag_response(J(response.s)).v

\* C11: a text that is not JSON gives None, and a text that is the JSON
\* encoding of a list, or of a mapping without the key 'raw_response', gives
\* the result of the call on that list or mapping.
C11_TextDecodedNoEnvelope ==
    TextReply =>
        IF ~json_loads(response.s).ok THEN result = None
        ELSE /\ J(response.s).t \in {"dict", "list"}
             /\ ~(IsDict(J(response.s)) /\ HasKey(J(response.s), RAW))
             => result = parse_rag_response(J(response.s)).v

\* the text of a list of messages gave the document of the list
C11_Witness ==
    /\ TextReply
    /\ json_loads(response.s).ok
    /\ IsList(J(response.s))
    /\ result # None
    /\ result = parse_rag_response(J(response.s)).v

\* a text that is a document followed by prose gave None
C11_WitnessNotJson ==
    /\ TextReply
    /\ response = Str(DocText("x") \o Thanks)
    /\ ~json_loads(response.s).ok
    /\ result = None

----------------------------------------------------------------------------
(* The code-fence step of the list branch, checked under SpecParse *)

\* <bt3>json, newline, the body, newline, <bt3>
Fenced(body) == <<FENCE, "json", NL>> \o body \o <<NL, FENCE>>

\* the JSON documents that carry 'query_understanding'
Documents ==
    { b \in Bodies : json_loads(b).ok /\ IsDict(J(b)) /\ HasKey(J(b), QU) }

\* C12: a content-block text longer than 50 characters that is a document
\* between code-fence markers gives exactly the document between the fences.
C12_FencedDocumentReturned ==
    ppc = "done" =>
        \A b \in Documents, n \in 0..MaxPad :
            /\ response = List(<<TextMessage(Spaces(n) \o Fenced(b))>>)
            /\ TextLen(Spaces(n) \o Fenced(b)) > MinTextLen
            => result = J(b)

\* the same for the documents in which no fence marker occurs
C12_FenceFreeDocumentReturned ==
    ppc = "done" =>
        \A b \in Documents, n \in 0..MaxPad :
            /\ response = List(<<TextMessage(Spaces(n) \o Fenced(b))>>)
            /\ TextLen(Spaces(n) \o Fenced(b)) > MinTextLen
            /\ ~SubstringOf(<<FENCE>>, b)
            => result = J(b)

\* a fenced document of more than 50 characters was returned as enclosed
C12_Witness ==
    /\ ppc = "done"
    /\ response = List(<<TextMessage(Fenced(DocText("x")))>>)
    /\ TextLen(Fenced(DocText("x"))) > MinTextLen
    /\ result = J(DocText("x"))

----------------------------------------------------------------------------
(* is_endpoint_supported *)

\* the runs of characters task types are written with
TaskAtoms == {"agent", "/", "llm", "v1", "chat", "completions"}
\* the most atoms in a task type
MaxTaskLen == 6
TaskTypes == SeqsUpTo(TaskAtoms, MaxTaskLen)

\* what _get_endpoint_task_type returns: a task type, or no str at all
TaskValues == { Str(t) : t \in TaskTypes } \cup {None, Num("5")}

\* line 20: "agent/", "llm/v1/chat", "llm/v1/completions"
supported_prefixes ==
    << <<"agent", "/">>,
       <<"llm", "/", "v1", "/", "chat">>,
       <<"llm", "/", "v1", "/", "completions">> >>

\* text.startswith(prefix)
startswith(text, prefix) == OccursAt(text, prefix, 1)

\* line 21: any(task_type.startswith(prefix) for prefix in supported_prefixes)
is_supported(task_type) ==
    \E n \in 1..Len(supported_prefixes) : startswith(task_type, supported_prefixes[n])

\* lines 18-23: the body of the try; o is how the lookup ended; a value
\* without startswith (None, a number) raises AttributeError
SupportBody(o) ==
    IF o.kind = "exc" THEN Exc
    ELSE IF ~IsStr(o.v) THEN Exc
    ELSE Ret(Bool(is_supported(o.v.s)))

\* the handler answers False
AssumeSupported_Closed(b) == IF b.kind = "exc" THEN Ret(Bool(FALSE)) ELSE b

\* lines 24-27: except Exception: return True
AssumeSupported(b) == IF b.kind = "exc" THEN Ret(Bool(TRUE)) ELSE b

is_endpoint_supported(o) == AssumeSupported(SupportBody(o))

InitSupport ==
    /\ spc = "called"
    /\ lookup = None
    /\ supported = None
    /\ supportRaised = FALSE
    /\ ParseIdle /\ QueryIdle /\ StreamIdle /\ ExtractIdle /\ UiIdle

\* the call ends as b says
SupportEnds(b) ==
    /\ supported' = b.v
    /\ supportRaised' = (b.kind = "exc")
    /\ spc' = "done"

\* the workspace client returns the endpoint and its task
LookupReturns ==
    /\ spc = "called"
    /\ \E task \in TaskValues :
        /\ lookup' = Ret(task)
        /\ SupportEnds(is_endpoint_supported(Ret(task)))
    /\ UNCHANGED <<parseVars, queryVars, streamVars, extractVars, uiVars>>

\* the workspace client raises
LookupFails ==
    /\ spc = "called"
    /\ lookup' = Exc
    /\ SupportEnds(is_endpoint_supported(Exc))
    /\ UNCHANGED <<parseVars, queryVars, streamVars, extractVars, uiVars>>

NextSupport == LookupReturns \/ LookupFails

SpecSupport == InitSupport /\ [][NextSupport]_vars

\* the first n atoms of a text, or all of it when it is shorter
Prefix(text, n) == SubSeq(text, 1, IF Len(text) < n THEN Len(text) ELSE n)

\* the task type begins with none of the three prefixes
NoSupportedPrefix(text) ==
    /\ Prefix(text, 2) # <<"agent", "/">>
    /\ Prefix(text, 5) # <<"llm", "/", "v1", "/", "chat">>
    /\ Prefix(text, 5) # <<"llm", "/", "v1", "/", "completions">>

\* C13: is_endpoint_supported never raises; it returns False only when the
\* lookup returned a task type that begins with none of the three prefixes,
\* and it returns True when the lookup failed.
C13_FailOpenProbe ==
    spc = "done" =>
        /\ ~supportRaised
        /\ supported \in {Bool(TRUE), Bool(FALSE)}
        /\ supported = Bool(FALSE) =>
              /\ lookup.kind = "ret"
              /\ IsStr(lookup.v)
              /\ NoSupportedPrefix(lookup.v.s)
        /\ lookup.kind = "exc" => supported = Bool(TRUE)

\* the lookup raised and the probe answered True
C13_Witness ==
    /\ spc = "done"
    /\ lookup = Exc
    /\ ~supportRaised
    /\ supported = Bool(TRUE)

\* the lookup returned a task type outside the three prefixes and the probe
\* answered False
C13_WitnessUnsupported ==
    /\ spc = "done"
    /\ lookup = Ret(Str(<<"llm", "/", "v1", "/", "agent", "/">>))
    /\ supported = Bool(FALSE)

----------------------------------------------------------------------------
(* query_endpoint_stream *)

RECURSIVE LStrip(_)
LStrip(text) ==
    IF text # <<>> /\ Head(text) \in Whitespace THEN LStrip(Tail(text)) ELSE text
RECURSIVE RStrip(_)
RStrip(text) ==
    IF text # <<>> /\ text[Len(text)] \in Whitespace
    THEN RStrip(SubSeq(text, 1, Len(text) - 1))
    ELSE text
\* text.strip()
Strip(text) == RStrip(LStrip(text))

RECURSIVE Split(_)
\* the text is cut at the newline at position p, when there is one
SplitAt(text, p) ==
    IF p = 0 THEN <<text>>
    ELSE <<SubSeq(text, 1, p - 1)>> \o Split(SubSeq(text, p + 1, Len(text)))
\* text.split('\n')
Split(text) == SplitAt(text, FindFrom(text, <<NL>>, 1))

\* a bytes value; BADBYTE stands for a byte that is not UTF-8
Bytes(atoms) == [t |-> "bytes", s |-> atoms, l |-> <<>>, d |-> <<>>]
BADBYTE == "<ff>"
IsBytes(v) == v.t = "bytes"
\* line 70: chunk.decode('utf-8')
Decodable(b) == \A n \in 1..Len(b.s) : b.s[n] # BADBYTE

\* line 74: 'data: '
DataPrefix == <<"data", ":", SP>>
\* line 76: '[DONE]'
DoneSentinel == <<"[", "DONE", "]">>

\* what a part of the loop has yielded, and whether it ended with an exception
Yields(frags) == [kind |-> "ret", v |-> frags]
Raises(frags) == [kind |-> "exc", v |-> frags]

\* the decode failure is not caught
DecodedFragment_Abort(q) == IF q.ok THEN Yields(<<q.v>>) ELSE Raises(<<>>)

\* lines 78-83: the decoded payload is yielded; a JSONDecodeError is logged
DecodedFragment(q) == IF q.ok THEN Yields(<<q.v>>) ELSE Yields(<<>>)

\* the payload is yielded as it is, the sentinel too
PayloadFragment_Raw(json_str) == Yields(<<Str(json_str)>>)

\* lines 76-83: the sentinel is skipped, anything else is decoded
PayloadFragment(json_str) ==
    IF Strip(json_str) = DoneSentinel THEN Yields(<<>>)
    ELSE DecodedFragment(json_loads(json_str))

\* lines 74-83: one line of a chunk
LineFragment(line) ==
    IF startswith(line, DataPrefix)
    THEN PayloadFragment(SubSeq(line, Len(DataPrefix) + 1, Len(line)))
    ELSE Yields(<<>>)

RECURSIVE LinesFragments(_)
\* the rest of the lines follow a line that did not raise
ThenLines(o, rest) ==
    IF o.kind = "exc" THEN o
    ELSE [kind |-> LinesFragments(rest).kind, v |-> o.v \o LinesFragments(rest).v]
\* line 73: for line in chunk.strip().split('\n')
LinesFragments(lines) ==
    IF lines = <<>> THEN Yields(<<>>)
    ELSE ThenLines(LineFragment(Head(lines)), Tail(lines))

\* lines 72-83: a chunk that is a str
TextFragments(text) == LinesFragments(Split(Strip(text)))

\* lines 68-85: one chunk of the response
ChunkFragments(c) ==
    IF IsBytes(c) THEN (IF Decodable(c) THEN TextFragments(c.s) ELSE Raises(<<>>))
    ELSE IF IsStr(c) THEN TextFragments(c.s)
    ELSE IF IsDict(c) THEN Yields(<<c>>)
    ELSE Yields(<<>>)

\* the most chunks the transport delivers in one call
MaxUnits == 2

\* data: <payload>
DataLine(payload) == DataPrefix \o payload
\* {"a":
CutText == <<"{">> \o Quoted("a") \o <<":">>

\* the lines of a server-sent-event stream: two fragments, the sentinel bare
\* and with blanks around it, a payload cut short, a line without the blank
\* after the colon
StreamLines ==
    { DataLine(OtherText), DataLine(<<"5">>),
      DataLine(DoneSentinel), DataLine(<<SP>> \o DoneSentinel \o <<SP>>),
      DataLine(CutText),
      <<"data", ":">> \o OtherText }

\* the lines that follow another line in one chunk: a fragment, the sentinel,
\* a payload cut short
SecondLines == { DataLine(OtherText), DataLine(DoneSentinel), DataLine(CutText) }

\* what the transport delivers: one event or two, as str or bytes, a mapping
\* already decoded, bytes that are not UTF-8, a number
Chunks ==
    { Str(l \o <<NL, NL>>) : l \in StreamLines }
    \cup { Str(l \o <<NL>> \o m) : l \in StreamLines, m \in SecondLines }
    \cup { Bytes(DataLine(OtherText) \o <<NL>> \o DataLine(CutText)),
            Bytes(DataLine(OtherText) \o <<NL, BADBYTE>>),
            J(OtherText), Num("5") }

InitStream ==
    /\ tpc = "start"
    /\ units = <<>>
    /\ yielded = <<>>
    /\ held = FALSE
    /\ ParseIdle /\ QueryIdle /\ SupportIdle /\ ExtractIdle /\ UiIdle

\* lines 61-64: client.predict returns the response to iterate
StreamPredictReturns ==
    /\ tpc = "start"
    /\ tpc' = "open"
    /\ held' = TRUE
    /\ UNCHANGED <<units, yielded, parseVars, queryVars, supportVars, extractVars, uiVars>>

\* lines 61-64 and 87-89: client.predict raises
StreamPredictFails ==
    /\ tpc = "start"
    /\ tpc' = "predict_raised"
    /\ UNCHANGED <<units, yielded, held, parseVars, queryVars, supportVars, extractVars, uiVars>>

\* the chunk has been worked through as o says
ChunkEnds(o) ==
    /\ yielded' = yielded \o o.v
    /\ tpc' = IF o.kind = "exc" THEN "chunk_raised" ELSE "open"

\* lines 67-85: the transport delivers a chunk and its fragments are yielded
ChunkArrives ==
    /\ tpc = "open"
    /\ Len(units) < MaxUnits
    /\ \E c \in Chunks :
        /\ units' = Append(units, c)
        /\ ChunkEnds(ChunkFragments(c))
    /\ UNCHANGED <<held, parseVars, queryVars, supportVars, extractVars, uiVars>>

\* line 67: the response is exhausted; the transport has closed it
TransportEnds ==
    /\ tpc = "open"
    /\ tpc' = "ended"
    /\ held' = FALSE
    /\ UNCHANGED <<units, yielded, parseVars, queryVars, supportVars, extractVars, uiVars>>

\* lines 67 and 87-89: the iteration over the response raises; the transport
\* has closed it
TransportFails ==
    /\ tpc = "open"
    /\ tpc' = "transport_raised"
    /\ held' = FALSE
    /\ UNCHANGED <<units, yielded, parseVars, queryVars, supportVars, extractVars, uiVars>>

\* line 80: the generator is suspended at a yield and the consumer asks for
\* no further fragment; no statement of the function runs
ConsumerAbandons ==
    /\ tpc = "open"
    /\ yielded # <<>>
    /\ tpc' = "abandoned"
    /\ UNCHANGED <<units, yielded, held, parseVars, queryVars, supportVars, extractVars, uiVars>>

\* lines 60-89: the runtime closes the abandoned generator: GeneratorExit is
\* raised at the yield, `except Exception` does not catch it and there is no
\* finally; the function closes nothing, and whether dropping the last
\* reference closes the response is up to the transport
GeneratorClosed ==
    /\ tpc = "abandoned"
    /\ tpc' = "closed"
    /\ held' \in {held, FALSE}
    /\ UNCHANGED <<units, yielded, parseVars, queryVars, supportVars, extractVars, uiVars>>

NextStream ==
    \/ StreamPredictReturns
    \/ StreamPredictFails
    \/ ChunkArrives
    \/ TransportEnds
    \/ TransportFails
    \/ ConsumerAbandons
    \/ GeneratorClosed

SpecStream == InitStream /\ [][NextStream]_vars

----------------------------------------------------------------------------
(* Properties of query_endpoint_stream, checked under SpecStream *)

\* what one chunk brings: the lines of a text, each as a str, or a mapping
UnitEvents(c) ==
    IF IsStr(c) \/ (IsBytes(c) /\ Decodable(c))
    THEN [n \in 1..Len(Split(Strip(c.s))) |-> Str(Split(Strip(c.s))[n])]
    ELSE IF IsDict(c) THEN <<c>>
    ELSE <<>>

RECURSIVE Events(_)
\* the lines and mappings of the chunks delivered so far, in arrival order
Events(us) == IF us = <<>> THEN <<>> ELSE UnitEvents(Head(us)) \o Events(Tail(us))

IsDataLine(e) ==
    IsStr(e) /\ Len(e.s) >= 3 /\ SubSeq(e.s, 1, 3) = <<"data", ":", " ">>
PayloadOf(e) == SubSeq(e.s, 4, Len(e.s))
IsSentinelLine(e) == IsDataLine(e) /\ Strip(PayloadOf(e)) = <<"[", "DONE", "]">>
IsWellFormedLine(e) == IsDataLine(e) /\ json_loads(PayloadOf(e)).ok
IsMalformedLine(e) == IsDataLine(e) /\ ~json_loads(PayloadOf(e)).ok

RECURSIVE Expected(_)
\* one fragment for every mapping and every well-formed data line, in order
Expected(ev) ==
    IF ev = <<>> THEN <<>>
    ELSE (IF IsDict(Head(ev)) THEN <<Head(ev)>>
          ELSE IF IsWellFormedLine(Head(ev)) THEN <<J(PayloadOf(Head(ev)))>>
          ELSE <<>>) \o Expected(Tail(ev))

\* the events that are not a sentinel line and may give a fragment
NonSentinel(ev) ==
    { n \in 1..Len(ev) : IsDict(ev[n]) \/ (IsDataLine(ev[n]) /\ ~IsSentinelLine(ev[n])) }

\* C14: no fragment is yielded for a line whose payload is the sentinel
\* [DONE], bare or with whitespace around it: there are never more fragments
\* than events that are not sentinel lines.
C14_SentinelNeverYielded ==
    tpc # "idle" => Len(yielded) <= Cardinality(NonSentinel(Events(units)))

\* a fragment and a bare sentinel came, then a sentinel with blanks around
\* it; one fragment was yielded
C14_Witness ==
    /\ tpc = "ended"
    /\ units = << Str(DataLine(OtherText) \o <<NL>> \o DataLine(DoneSentinel)),
                  Str(DataLine(<<SP>> \o DoneSentinel \o <<SP>>) \o <<NL, NL>>) >>
    /\ yielded = <<J(OtherText)>>

\* the position of the first sentinel line, 0 when there is none
FirstSentinel(ev) ==
    IF \E n \in 1..Len(ev) : IsSentinelLine(ev[n])
    THEN CHOOSE n \in 1..Len(ev) :
            IsSentinelLine(ev[n]) /\ \A m \in 1..(n - 1) : ~IsSentinelLine(ev[m])
    ELSE 0

\* C15: once a sentinel line has been read nothing more is yielded, from the
\* lines after it in the same chunk or from later chunks.
C15_NothingAfterSentinel ==
    tpc # "idle" /\ FirstSentinel(Events(units)) # 0 =>
        yielded = Expected(SubSeq(Events(units), 1, FirstSentinel(Events(units)) - 1))

\* C16: a data line whose payload is not JSON yields nothing and ends
\* nothing: the fragments yielded are those of the well-formed data lines (and
\* of the mappings) delivered so far, one each, in arrival order, and the
\* loop raises on a chunk only when its bytes cannot be decoded.
C16_MalformedLineSkipped ==
    tpc # "idle" =>
        /\ yielded = Expected(Events(units))
        /\ tpc = "chunk_raised" =>
              IsBytes(units[Len(units)]) /\ ~Decodable(units[Len(units)])

\* a payload cut short came after a fragment in one chunk and before a
\* fragment in the next; both fragments were yielded, in that order
C16_Witness ==
    /\ tpc = "ended"
    /\ units = << Str(DataLine(OtherText) \o <<NL>> \o DataLine(CutText)),
                  Str(DataLine(CutText) \o <<NL>> \o DataLine(OtherText)) >>
    /\ IsMalformedLine(Events(units)[2])
    /\ yielded = <<J(OtherText), J(OtherText)>>

----------------------------------------------------------------------------
(* extract_content_from_stream *)

\* line 179: "content" in delta, then delta["content"]
DeltaContent(delta) ==
    IF ~CanContain(delta) THEN Exc
    ELSE IF ~Contains(delta, "content") THEN Go(None)
    ELSE IF IsDict(delta) THEN Ret(GetKey(delta, K("content")))
    ELSE Exc

\* line 178: chunk["choices"][0].get("delta", {}); an empty sequence, a
\* mapping, None or a number cannot be subscripted with 0, and the first
\* element must have .get
FirstChoiceDelta(choices) ==
    IF IsList(choices) /\ choices.l # <<>> /\ IsDict(choices.l[1])
    THEN DeltaContent(DictGetOr(choices.l[1], K("delta"), Dict(<<>>)))
    ELSE Exc

\* lines 183-187: a str is the text, a list of parts is joined
ContentText(content) ==
    IF IsStr(content) THEN Ret(content)
    ELSE IF IsList(content)
         THEN IF PartsJoinable(content.l) THEN Ret(Str(JoinText(content.l))) ELSE Exc
    ELSE Go(None)

\* line 191
TextField(text) == Ret(text)

\* lines 195-203
OutputText(output) ==
    IF IsStr(output) THEN Ret(output)
    ELSE IF IsDict(output)
         THEN IF HasKey(output, K("text")) THEN Ret(GetKey(output, K("text")))
              ELSE IF HasKey(output, K("content")) THEN Ret(GetKey(output, K("content")))
              ELSE Go(None)
    ELSE Go(None)

\* lines 207-211
DeltaText(delta) ==
    IF IsStr(delta) THEN Ret(delta)
    ELSE IF IsDict(delta) /\ HasKey(delta, K("content")) THEN Ret(GetKey(delta, K("content")))
    ELSE Go(None)

\* if word in chunk: ... chunk[word] ...; the membership test raises on a
\* value that is no container, the subscript on one that is no mapping;
\* handled is what the format makes of chunk[word]
Format(frag, word, handled) ==
    IF ~CanContain(frag) THEN Exc
    ELSE IF ~Contains(frag, word) THEN Go(None)
    ELSE IF IsDict(frag) THEN handled
    ELSE Exc

\* lines 177-211: the five formats, in the order of the code
Format1(frag) == Format(frag, "choices", FirstChoiceDelta(GetKey(frag, K("choices"))))
Format2(frag) == Format(frag, "content", ContentText(GetKey(frag, K("content"))))
Format3(frag) == Format(frag, "text", TextField(GetKey(frag, K("text"))))
Format4(frag) == Format(frag, "output", OutputText(GetKey(frag, K("output"))))
Format5(frag) == Format(frag, "delta", DeltaText(GetKey(frag, K("delta"))))

\* lines 176-211: the body of the try
ExtractBody(frag) ==
    OrElse(Format1(frag), OrElse(Format2(frag), OrElse(Format3(frag),
        OrElse(Format4(frag), Format5(frag)))))

\* lines 213-218: an exception is logged, and None is returned after it as
\* it is when no format matched
ExtractEnds(o) == IF o.kind = "ret" THEN o ELSE Ret(None)

extract_content_from_stream(frag) == ExtractEnds(ExtractBody(frag))

\* a key left out of a fragment
Absent == [t |-> "absent", s |-> <<>>, l |-> <<>>, d |-> <<>>]
Present(items) == SelectSeq(items, LAMBDA it : it.v # Absent)

\* one choice with the delta given
Choices(delta) == List(<<Dict(Present(<<Item(K("delta"), delta)>>))>>)
\* a part of a content
Part(type, text) == Dict(Present(<<Item(K("type"), W(type)), Item(K("text"), text)>>))

ChoicesValues ==
    { Absent, List(<<>>), None, W("x"), List(<<Num("5")>>),
      Choices(Absent), Choices(Dict(<<>>)),
      Choices(Dict(<<Item(K("content"), W("c1"))>>)),
      Choices(Dict(<<Item(K("content"), None)>>)) }
ContentValues ==
    { Absent, W("c2"), Num("5"), List(<<>>), List(<<Num("5")>>),
      List(<<Part("text", W("p")), Part("image", Absent), Part("text", W("q"))>>) }
TextValues == { Absent, W("c3"), Num("5") }
OutputValues ==
    { Absent, W("c4"), Num("5"), Dict(<<>>),
      Dict(<<Item(K("text"), W("t4")), Item(K("content"), W("k4"))>>),
      Dict(<<Item(K("content"), W("k4"))>>) }
DeltaValues ==
    { Absent, W("c5"), Num("5"), Dict(<<>>), Dict(<<Item(K("content"), W("k5"))>>) }

\* the fragments the extractor is run on: mappings with any of the five keys,
\* and what a data line may decode to besides a mapping
Fragments ==
    { Dict(Present(<<Item(K("choices"), c), Item(K("content"), n), Item(K("text"), t),
                     Item(K("output"), o), Item(K("delta"), d)>>)) :
        c \in ChoicesValues, n \in ContentValues, t \in TextValues,
        o \in OutputValues, d \in DeltaValues }
    \cup { None, Num("5"), W("text"), W("x"), List(<<>>), List(<<W("content")>>) }

InitExtract ==
    /\ chunk \in Fragments
    /\ extracted = None
    /\ extractRaised = FALSE
    /\ epc = "called"
    /\ ParseIdle /\ QueryIdle /\ SupportIdle /\ StreamIdle /\ UiIdle

\* the call ends as o says
ExtractReturns(o) ==
    /\ extracted' = o.v
    /\ extractRaised' = (o.kind = "exc")

\* the call runs to its end
Extract ==
    /\ epc = "called"
    /\ ExtractReturns(extract_content_from_stream(chunk))
    /\ epc' = "done"
    /\ UNCHANGED <<chunk, parseVars, queryVars, supportVars, streamVars, uiVars>>

NextExtract == Extract

SpecExtract == InitExtract /\ [][NextExtract]_vars

----------------------------------------------------------------------------
(* Properties of extract_content_from_stream, checked under SpecExtract *)

\* the value at a path of keys and positions of a fragment, Absent when the
\* path does not exist
At(v, key) == IF IsDict(v) /\ HasKey(v, key) THEN GetKey(v, key) ELSE Absent
First(v) == IF IsList(v) /\ v.l # <<>> THEN v.l[1] ELSE Absent

\* a sequence of typed parts
IsParts(v) ==
    /\ IsList(v)
    /\ \A n \in 1..Len(v.l) :
          /\ IsDict(v.l[n])
          /\ At(v.l[n], K("type")) = W("text") => IsStr(At(v.l[n], K("text")))

\* the text a fragment carries in each of the five shapes: a one-element
\* sequence, empty when the fragment does not have the shape
ShapeText(i, f) ==
    CASE i = 1 ->
           IF IsStr(At(At(First(At(f, K("choices"))), K("delta")), K("content")))
           THEN <<At(At(First(At(f, K("choices"))), K("delta")), K("content"))>>
           ELSE <<>>
      [] i = 2 ->
           IF IsStr(At(f, K("content"))) THEN <<At(f, K("content"))>>
           ELSE IF IsParts(At(f, K("content")))
                THEN <<Str(JoinText(At(f, K("content")).l))>>
           ELSE <<>>
      [] i = 3 -> IF IsStr(At(f, K("text"))) THEN <<At(f, K("text"))>> ELSE <<>>
      [] i = 4 ->
           IF IsStr(At(f, K("output"))) THEN <<At(f, K("output"))>>
           ELSE IF IsStr(At(At(f, K("output")), K("text")))
                THEN <<At(At(f, K("output")), K("text"))>>
           ELSE IF At(At(f, K("output")), K("text")) = Absent
                   /\ IsStr(At(At(f, K("output")), K("content")))
                THEN <<At(At(f, K("output")), K("content"))>>
           ELSE <<>>
      [] i = 5 ->
           IF IsStr(At(f, K("delta"))) THEN <<At(f, K("delta"))>>
           ELSE IF IsStr(At(At(f, K("delta")), K("content")))
                THEN <<At(At(f, K("delta")), K("content"))>>
           ELSE <<>>

\* the shapes a fragment matches, and the one of highest priority
Matching(f) == { i \in 1..5 : ShapeText(i, f) # <<>> }
Highest(f) == CHOOSE i \in Matching(f) : \A j \in Matching(f) : i <= j

\* the key each shape is read from
ShapeKey(i) == <<K("choices"), K("content"), K("text"), K("output"), K("delta")>>[i]

\* C17: a fragment that matches more than one shape gives the text of the
\* matching shape of highest priority.
C17_HighestPriorityShapeWins ==
    epc = "done" /\ Cardinality(Matching(chunk)) >= 2
        => extracted = ShapeText(Highest(chunk), chunk)[1]

\* the same for the fragments in which every key of higher priority than the
\* matching shape is absent or well formed
C17_OrderAmongWellFormed ==
    /\ epc = "done"
    /\ Cardinality(Matching(chunk)) >= 2
    /\ \A i \in 1..5 : i < Highest(chunk) => At(chunk, ShapeKey(i)) = Absent
    => extracted = ShapeText(Highest(chunk), chunk)[1]

\* C18: extract_content_from_stream never raises, and it returns None only
\* when the fragment matches none of the five shapes.
C18_NothingOnlyWhenNoShape ==
    epc = "done" =>
        /\ ~extractRaised
        /\ extracted = None => Matching(chunk) = {}

----------------------------------------------------------------------------
(* The message query_endpoint builds, checked under SpecQuery *)

\* the agent-style request returned a mapping and the call has ended
AgentReturnedMapping == QueryEnded /\ sendOk[1] /\ IsDict(agentRes)

\* the value under the first of 'output', 'content', 'text', 'result' that is
\* present in the mapping, the mapping itself when none is
Flattened(res) ==
    IF HasKey(res, K("output")) THEN GetKey(res, K("output"))
    ELSE IF HasKey(res, K("content")) THEN GetKey(res, K("content"))
    ELSE IF HasKey(res, K("text")) THEN GetKey(res, K("text"))
    ELSE IF HasKey(res, K("result")) THEN GetKey(res, K("result"))
    ELSE res

\* C19: after an agent-style reply that is a mapping, the content returned is
\* the text form of the value under the first key present among 'output',
\* 'content', 'text', 'result', or of the whole mapping when none is present
\* (a value that is a text already is the content), and raw_response is the
\* mapping.
C19_AgentContentByKeyPriority ==
    AgentReturnedMapping =>
        /\ qpc = "returned"
        /\ IsStr(DictGet(qresult, K("content")))
        /\ DictGet(qresult, K("content")) = PyStr(Flattened(agentRes))
        /\ IsStr(Flattened(agentRes)) => DictGet(qresult, K("content")) = Flattened(agentRes)
        /\ HasKey(qresult, RAW) /\ GetKey(qresult, RAW) = agentRes

\* a reply with 'content' 5 and 'text' "a" and no 'output' gave the content "5"
C19_Witness ==
    /\ AgentReturnedMapping
    /\ agentRes = Dict(<<Item(K("content"), Num("5")), Item(K("text"), W("a"))>>)
    /\ DictGet(qresult, K("content")) = W("5")
    /\ GetKey(qresult, RAW) = agentRes

\* the chat-style request returned a mapping and a message was built from it
ChatReturnedMessage == qpc = "returned" /\ sendOk = <<FALSE, TRUE>> /\ IsDict(chatRes)

RECURSIVE TextOfTaggedParts(_)
\* the texts of the parts tagged "text", one after the other
TextOfTaggedParts(parts) ==
    IF parts = <<>> THEN <<>>
    ELSE IF At(Head(parts), K("type")) = W("text")
         THEN (IF At(Head(parts), K("text")) = Absent THEN <<>>
               ELSE At(Head(parts), K("text")).s) \o TextOfTaggedParts(Tail(parts))
    ELSE TextOfTaggedParts(Tail(parts))

\* the message of the first choice, and its content (None when it has none)
ChoiceMessage(res) == GetKey(GetKey(res, K("choices")).l[1], K("message"))
ChoiceContent(res) == DictGet(ChoiceMessage(res), K("content"))

\* C20: in the message built from a chat-style reply 'messages' goes before
\* 'choices'; with 'messages' the result is its last element, or the
\* assistant turn "No response" when it is empty; with 'choices' the content
\* comes from the first choice's message: the texts of the parts tagged
\* "text" joined in order for a list, the string itself (the message is
\* returned as it is) for a string, its text form otherwise; with neither key
\* the content is the text form of the whole reply.
C20_ChatMessageByShape ==
    ChatReturnedMessage =>
        /\ HasKey(chatRes, K("messages")) /\ IsList(GetKey(chatRes, K("messages"))) =>
              IF GetKey(chatRes, K("messages")).l = <<>>
              THEN qresult = Turn(W("assistant"), W("No response"))
              ELSE qresult = GetKey(chatRes, K("messages")).l[
                                 Len(GetKey(chatRes, K("messages")).l)]
        /\ ~HasKey(chatRes, K("messages")) /\ HasKey(chatRes, K("choices")) =>
              /\ IsList(ChoiceContent(chatRes)) =>
                    DictGet(qresult, K("content"))
                        = Str(TextOfTaggedParts(ChoiceContent(chatRes).l))
              /\ IsStr(ChoiceContent(chatRes)) =>
                    /\ qresult = ChoiceMessage(chatRes)
                    /\ DictGet(qresult, K("content")) = ChoiceContent(chatRes)
              /\ ~IsList(ChoiceContent(chatRes)) /\ ~IsStr(ChoiceContent(chatRes)) =>
                    DictGet(qresult, K("content")) = PyStr(ChoiceContent(chatRes))
        /\ ~HasKey(chatRes, K("messages")) /\ ~HasKey(chatRes, K("choices")) =>
              DictGet(qresult, K("content")) = PyStr(chatRes)

\* a reply with parts tagged text, image, text gave the two texts joined
C20_Witness ==
    /\ ChatReturnedMessage
    /\ HasKey(chatRes, K("choices"))
    /\ IsList(ChoiceContent(chatRes))
    /\ Len(ChoiceContent(chatRes).l) = 3
    /\ DictGet(qresult, K("content")) = Str(<<"a", "b">>)

\* a reply with both keys gave the last element of 'messages'
C20_WitnessPrecedence ==
    /\ ChatReturnedMessage
    /\ HasKey(chatRes, K("messages")) /\ HasKey(chatRes, K("choices"))
    /\ qresult = W("x")

----------------------------------------------------------------------------
(* The transport handle of query_endpoint_stream, checked under SpecStream *)

\* the fragment sequence is over: abandoned by the consumer, ended by an
\* exception, or exhausted
SequenceOver ==
    tpc \in {"abandoned", "closed", "ended",
             "predict_raised", "transport_raised", "chunk_raised"}

\* C21: when the consumer has abandoned the iteration, or the iteration has
\* ended by an error or by exhaustion, the response of the transport is not
\* held open.
C21_HandleReleased == SequenceOver => ~held

----------------------------------------------------------------------------
(* The probe of the keys 'content', 'text', 'result', checked under SpecParse *)

\* the reply is a mapping that is no envelope, has not both required keys and
\* no list under 'output', and no list under the three keys probed
ProbedMapping ==
    /\ ppc = "done"
    /\ IsDict(response)
    /\ ~HasKey(response, RAW)
    /\ ~(HasKey(response, QU) /\ HasKey(response, RESULTS))
    /\ ~IsList(At(response, K("output")))
    /\ \A key \in {"content", "text", "result"} : ~IsList(At(response, K(key)))

\* the document a value under a probed key yields: a one-element sequence,
\* empty when it yields none. A text yields the mapping it decodes to when
\* that has both keys; a mapping with 'query_understanding' yields itself.
Yielded(v) ==
    IF IsStr(v)
    THEN IF /\ json_loads(v.s).ok
            /\ IsDict(J(v.s))
            /\ HasKey(J(v.s), QU) /\ HasKey(J(v.s), RESULTS)
         THEN <<J(v.s)>>
         ELSE <<>>
    ELSE IF IsDict(v) /\ HasKey(v, QU) THEN <<v>>
    ELSE <<>>

\* the document of the first of 'content', 'text', 'result' that yields one
FirstYielded(resp) ==
    IF Yielded(At(resp, K("content"))) # <<>> THEN Yielded(At(resp, K("content")))[1]
    ELSE IF Yielded(At(resp, K("text"))) # <<>> THEN Yielded(At(resp, K("text")))[1]
    ELSE IF Yielded(At(resp, K("result"))) # <<>> THEN Yielded(At(resp, K("result")))[1]
    ELSE None

\* C22: the keys 'content', 'text', 'result' are probed in that order and the
\* first that yields a document gives the result; a key whose value yields
\* none does not stop the probe.
C22_ProbeGoesOn == ProbedMapping => result = FirstYielded(response)

\* a text under a probed key decodes to a value that is no mapping, list or
\* text
DecodesToScalar(v) ==
    IF IsStr(v) THEN json_loads(v.s).ok /\ ~CanContain(J(v.s)) ELSE FALSE

\* the same for the replies in which every probed text that is JSON decodes
\* to a mapping
C22_ProbeGoesOnPastContainers ==
    /\ ProbedMapping
    /\ \A key \in {"content", "text", "result"} :
          /\ ~DecodesToScalar(At(response, K(key)))
          /\ IsStr(At(response, K(key))) /\ json_loads(At(response, K(key)).s).ok
                => IsDict(J(At(response, K(key)).s))
    => result = FirstYielded(response)

----------------------------------------------------------------------------
(* app.py: one UI session, one step per script run of main *)

\* model_serving_utils.py lines 91-169: the whole call; a is what the
\* agent-style client.predict did, c what the chat-style one did
query_endpoint(a, c) ==
    IF AfterAgent(AgentAttempt(a)) = "returned" THEN AgentAttempt(a) ELSE ChatAttempt(c)

\* app.py line 814: len(parsed_data.get('results', [])) raises on a value
\* with no get() and on results with no len()
ResultsCounted(parsed_data) ==
    IsDict(parsed_data) /\ HasLen(DictGetOr(parsed_data, RESULTS, List(<<>>)))

\* app.py lines 810-818: what is returned for the parsed reply
ParsedOrNothing(parsed_data, progress_placeholder) ==
    IF Truthy(parsed_data)
    THEN IF progress_placeholder /\ ~ResultsCounted(parsed_data)
         THEN Exc
         ELSE Ret(parsed_data)
    ELSE Ret(None)

\* app.py lines 788-824: r is how query_endpoint ended; its exception and
\* the one of line 814 are raised again
query_rag_endpoint(r, progress_placeholder) ==
    IF r.kind = "exc" THEN Exc
    ELSE ParsedOrNothing(parse_rag_response(r.v).v, progress_placeholder)

\* app.py lines 880-896: session_state.searched after the search ended as o
SearchedAfter(o) == o.kind = "ret" /\ Truthy(o.v)

\* app.py lines 880-896: session_state.results_data after the search ended
\* as o; a failed search leaves it as it was
ResultsAfter(o, before) == IF SearchedAfter(o) THEN o.v ELSE before

\* app.py line 917: the number of results rendered at most
CardLimit == 3

\* data['results'][:3]
FirstResults(results) ==
    IF Len(results) <= CardLimit THEN results ELSE SubSeq(results, 1, CardLimit)

\* app.py lines 681-690: the subscripts of render_result_card_compact; a
\* result without one of the keys raises KeyError
CardKeys == {"rank", "description", "data_product_name", "full_identifier", "table_names"}
\* app.py lines 565-566, 691: eval(table_names) of a text that is a list
\* display gives the rows; a bare name raises NameError
Evaluates(table_names) ==
    IsStr(table_names) /\ json_loads(table_names.s).ok /\ IsList(J(table_names.s))
Renderable(res) ==
    /\ IsDict(res)
    /\ \A key \in CardKeys : HasKey(res, K(key))
    /\ IsStr(DictGet(res, K("data_product_name")))
    /\ Evaluates(DictGet(res, K("table_names")))

\* app.py lines 772-780: the button below a card, disabled for a name in
\* access_requested
Card(res, requested) ==
    [name |-> GetKey(res, K("data_product_name")),
     rank |-> GetKey(res, K("rank")),
     disabled |-> GetKey(res, K("data_product_name")) \in requested]

RECURSIVE RenderCards(_, _)
\* app.py lines 917-918: the cards are rendered in order; the script run
\* ends at a result that cannot be rendered
RenderCards(results, requested) ==
    IF results = <<>> \/ ~Renderable(Head(results)) THEN <<>>
    ELSE <<Card(Head(results), requested)>> \o RenderCards(Tail(results), requested)

\* the cards are rendered whatever session_state.searched is
Page_Unguarded(is_searched, data, requested) ==
    IF Truthy(data) /\ IsDict(data) /\ HasKey(data, RESULTS)
           /\ IsList(GetKey(data, RESULTS))
    THEN RenderCards(FirstResults(GetKey(data, RESULTS).l), requested)
    ELSE <<>>

\* app.py lines 898-929: the result cards on the page at the end of a script
\* run
Page(is_searched, data, requested) ==
    IF is_searched /\ Truthy(data) /\ IsDict(data) /\ HasKey(data, RESULTS)
           /\ IsList(GetKey(data, RESULTS))
    THEN RenderCards(FirstResults(GetKey(data, RESULTS).l), requested)
    ELSE <<>>

\* the name is not recorded
Requested_Forgotten(requested, name) == requested

\* app.py line 782: access_requested.add(data_product_name)
Requested(requested, name) == requested \cup {name}

\* app.py lines 784, 569-605: the call of request_access_api made while
\* requested is the set; ok says whether the POST succeeded. A failure is
\* caught in the function.
AccessCall(name, ok, requested) ==
    [name |-> name, ok |-> ok, listed |-> name \in requested]

\* the most script runs in a session, and the most results in a reply
MaxRuns == 4
MaxResults == 4

ProductNames == {W("p"), W("q")}

\* one result of a reply, complete
ResultOf(rank, name) ==
    Dict(<<Item(K("rank"), rank), Item(K("description"), W("x")),
           Item(K("data_product_name"), name), Item(K("full_identifier"), W("x")),
           Item(K("table_names"), Str(<<"[", "]">>))>>)

\* the results of a reply named by names, ranked by position
RankedResults(names) ==
    [i \in 1..Len(names) |-> ResultOf(Num(<<"1", "2", "3", "4", "5", "6">>[i]), names[i])]

\* a reply with understanding and the results given
DocOf(results) == Dict(<<Item(QU, W("x")), Item(RESULTS, results)>>)

\* the names of the results of a reply: every list of up to 2 names, and the
\* longer lists of one name
NameLists ==
    SeqsUpTo(ProductNames, 2)
    \cup { [i \in 1..n |-> name] : n \in 3..MaxResults, name \in ProductNames }

\* the documents the endpoint answers a search with; two hold a result that
\* cannot be rendered, between two complete ones
SearchDocs ==
    { DocOf(List(RankedResults(names))) : names \in NameLists }
    \cup { DocOf(List(<<ResultOf(Num("1"), W("p")), broken, ResultOf(Num("3"), W("q"))>>)) :
               broken \in { Dict(<<Item(K("rank"), Num("2"))>>),
                            Dict(DictPut(ResultOf(Num("2"), W("q")).d, K("table_names"), W("x"))) } }

\* what client.predict does with the agent-style request of a search
SearchAgentOutcomes ==
    { Ret(doc) : doc \in SearchDocs }
    \cup { Ret(DocOf(Num("5"))), Ret(J(QUOnlyText)), Ret(W("x")), Exc }

\* what client.predict does with the chat-style request of a search
SearchChatOutcomes ==
    { Ret(Dict(<<Item(K("choices"), List(<<Dict(<<Item(K("message"),
          Turn(W("assistant"), Str(DocText("x"))))>>)>>))>>)),
      Ret(W("x")), Exc }

\* the ways a search can end
SearchOutcomes ==
    { query_rag_endpoint(query_endpoint(a, Exc), TRUE) : a \in SearchAgentOutcomes }
    \cup { query_rag_endpoint(query_endpoint(Exc, c), TRUE) : c \in SearchChatOutcomes }

InitUi ==
    /\ UiIdle
    /\ ParseIdle /\ QueryIdle /\ SupportIdle /\ StreamIdle /\ ExtractIdle

\* app.py lines 868-929: the search button is clicked with a query; the
\* search ends and the page is drawn
SearchRun ==
    /\ runs < MaxRuns
    /\ \E o \in SearchOutcomes :
        /\ lastSearch' = o
        /\ searched' = SearchedAfter(o)
        /\ results_data' = ResultsAfter(o, results_data)
        /\ cards' = Page(SearchedAfter(o), ResultsAfter(o, results_data), access_requested)
    /\ runs' = runs + 1
    /\ UNCHANGED <<access_requested, requests, parseVars, queryVars, supportVars, streamVars, extractVars>>

\* app.py lines 868, 898-929: the search button is clicked with no query, or
\* another widget starts the run; the page is drawn from the session state
OtherRun ==
    /\ runs < MaxRuns
    /\ cards' = Page(searched, results_data, access_requested)
    /\ runs' = runs + 1
    /\ UNCHANGED <<searched, results_data, access_requested, requests, lastSearch,
                   parseVars, queryVars, supportVars, streamVars, extractVars>>

\* app.py lines 775-785: the enabled button of card i is clicked; the name is
\* recorded, request_access_api is called and st.rerun() draws the page again
AccessRun ==
    /\ runs < MaxRuns
    /\ \E i \in 1..Len(cards), ok \in BOOLEAN :
        /\ ~cards[i].disabled
        /\ access_requested' = Requested(access_requested, cards[i].name)
        /\ requests' = Append(requests,
               AccessCall(cards[i].name, ok, Requested(access_requested, cards[i].name)))
        /\ cards' = Page(searched, results_data, Requested(access_requested, cards[i].name))
    /\ runs' = runs + 1
    /\ UNCHANGED <<searched, results_data, lastSearch,
                   parseVars, queryVars, supportVars, streamVars, extractVars>>

NextUi ==
    \/ SearchRun
    \/ OtherRun
    \/ AccessRun

SpecUi == InitUi /\ [][NextUi]_vars

----------------------------------------------------------------------------
(* Properties of the UI session *)

\* no name has two calls of request_access_api; each call was made with its
\* name already in access_requested, and the name is there still; a card on
\* the page whose name is in access_requested has its button disabled
RequestsRecorded ==
    /\ \A i, j \in 1..Len(requests) : requests[i].name = requests[j].name => i = j
    /\ \A i \in 1..Len(requests) :
          requests[i].listed /\ requests[i].name \in access_requested
    /\ \A k \in 1..Len(cards) : cards[k].name \in access_requested => cards[k].disabled

\* a step removes no name from access_requested
NamesKept == access_requested \subseteq access_requested'

\* C23: in one session request_access_api is called at most once for a name:
\* the name is in access_requested before the call, no step removes a name
\* from access_requested, and the button of a card with that name is disabled
\* from then on, whether the call succeeded or failed.
C23_RequestSentAtMostOnce == []RequestsRecorded /\ [][NamesKept]_vars

\* a request failed, a later search drew two cards with its name, and both
\* buttons are disabled
C23_Witness ==
    \E i \in 1..Len(requests) :
        /\ ~requests[i].ok
        /\ lastSearch.kind = "ret"
        /\ runs > i + 1
        /\ \E k, m \in 1..Len(cards) :
              /\ k # m
              /\ cards[k].name = requests[i].name /\ cards[k].disabled
              /\ cards[m].name = requests[i].name /\ cards[m].disabled

\* the latest search failed: query_rag_endpoint raised or returned nothing
SearchFailed ==
    lastSearch.kind = "exc" \/ (lastSearch.kind = "ret" /\ ~Truthy(lastSearch.v))

\* the results held in the session state
HeldResults ==
    IF IsDict(results_data) /\ IsList(DictGet(results_data, RESULTS))
    THEN GetKey(results_data, RESULTS).l
    ELSE <<>>

\* C24: cards are on the page only when searched is true; searched is true
\* only if results_data is the document the latest search with a query
\* recovered; a search that raised or recovered nothing leaves searched false
\* and no card of the earlier results on the page; the cards are at most the
\* first 3 results, in order.
C24_CardsOfLatestSearch ==
    /\ cards # <<>> => searched
    /\ searched => /\ lastSearch.kind = "ret"
                   /\ Truthy(lastSearch.v)
                   /\ results_data = lastSearch.v
    /\ SearchFailed => ~searched /\ cards = <<>>
    /\ Len(cards) <= 3
    /\ Len(cards) <= Len(HeldResults)
    /\ \A k \in 1..Len(cards) :
          /\ cards[k].name = DictGet(HeldResults[k], K("data_product_name"))
          /\ cards[k].rank = DictGet(HeldResults[k], K("rank"))

\* a search raised after one that found more than 3 results: the results are
\* held still, and no card is on the page
C24_Witness ==
    /\ lastSearch.kind = "exc"
    /\ ~searched
    /\ Len(HeldResults) > 3
    /\ cards = <<>>

\* a search found more than 3 results and 3 cards are on the page
C24_WitnessFirstThree ==
    /\ searched
    /\ Len(HeldResults) > 3
    /\ Len(cards) = 3

====
